---- MODULE Spec2Model ----
(***************************************************************************)
(* Model of dd-cli: the Datadog HTTP client wrapper (src/dd_cli/http.py)   *)
(* and the four click commands built on it (src/dd_cli/cli.py).            *)
(*                                                                         *)
(* Representation.                                                         *)
(*  - A Python str that the code takes apart (site, --field argument,      *)
(*    error message) is a sequence of chunks.  A chunk is a literal piece  *)
(*    of text; every delimiter the code looks for ("=", "[", " ", "/",     *)
(*    "http://", "https://", "api.") is a chunk of its own and no          *)
(*    concatenation of the other chunks spells one, so startswith, "in",   *)
(*    split and strip on the text are the same tests on the chunks.        *)
(*  - A str that is only passed around (key, cursor, id) is a TLA+ string. *)
(*  - An optional value (None or v) is the sequence <<>> or <<v>>.         *)
(*  - A dict is a function; a missing key is a key outside its DOMAIN.     *)
(***************************************************************************)
EXTENDS Integers, Sequences, FiniteSets, TLC

VARIABLES
    cmd,          \* the click command that was invoked
    args,         \* its parsed parameters
    environ,      \* os.environ: DD_API_KEY, DD_APP_KEY
    pc,           \* position of the command: start, call, wait, ret, done
    callsite,     \* which client method the command is in
    client,       \* the DatadogClient: state, base_url, app_key, acquired
    wire,         \* the HTTP exchanges so far: requests sent, responses got,
                  \* the last request and the last response
    ret,          \* what the last _request returned or raised
    data,         \* get-incident: the incident dict being enriched
    attributes,   \* update-incident: the attributes dict
    cursor,       \* search-logs: the loop's cursor
    all_logs,     \* search-logs: the accumulated log entries
    page,         \* search-logs: iterations of range(max_pages) entered
    served,       \* the server's side: the log entries handed out, in order,
                  \* the cursor of the last page, the incident returned, and
                  \* how the two auxiliary fetches ended
    out           \* the process outcome: status, stdout, stderr

vars == <<cmd, args, environ, pc, callsite, client, wire, ret, data,
          attributes, cursor, all_logs, page, served, out>>

----------------------------------------------------------------------------
(* Bounds of the model *)

\* chunks in a --site value
MaxSiteParts == 3
\* --field arguments on one command line
MaxFields == 2
\* elements in the `errors` list of an error body
MaxErrors == 2
\* log entries the server holds for one search
MaxLogs == 2

(* Program constants *)

\* range(max_pages) with --all-pages
MaxPagesAll == 50
\* range(max_pages) without it
MaxPagesOne == 1
\* the status printed by validate
ValidateStatus == 200

----------------------------------------------------------------------------
(* Python values *)

None == <<>>
Some(v) == <<v>>
IsNone(o) == o = <<>>
Val(o) == o[1]
\* truth value of an optional str: None and "" are falsy
TruthyStr(o) == o # <<>> /\ o[1] # ""

\* o or d, for an optional str o
Or(o, d) == IF TruthyStr(o) THEN Val(o) ELSE d

EmptyDict == <<>>
HasKey(d, k) == k \in DOMAIN d
\* d[k] = v on a dict
DictSet(d, k, v) == [x \in (DOMAIN d) \cup {k} |-> IF x = k THEN v ELSE d[x]]

SeqsUpTo(S, n) == UNION {[1..k -> S] : k \in 0..n}

StartsWith(s, p) == Len(s) >= Len(p) /\ SubSeq(s, 1, Len(p)) = p

RECURSIVE LStrip(_)
LStrip(s) == IF s # <<>> /\ Head(s) = " " THEN LStrip(Tail(s)) ELSE s

RECURSIVE RStrip(_)
RStrip(s) ==
    IF s # <<>> /\ s[Len(s)] = " " THEN RStrip(SubSeq(s, 1, Len(s) - 1)) ELSE s

\* str.strip()
Strip(s) == RStrip(LStrip(s))

\* sep.join(parts), parts a sequence of chunk strings
RECURSIVE Join(_, _)
Join(sep, parts) ==
    IF parts = <<>> THEN <<>>
    ELSE IF Len(parts) = 1 THEN parts[1]
    ELSE parts[1] \o sep \o Join(sep, Tail(parts))

----------------------------------------------------------------------------
(* http.py: site normalisation and environment *)

\* urllib.parse.urlparse(site).netloc for a site that starts with a scheme:
\* the text between "//" and the next "/".  A scheme chunk further in ends
\* the netloc at its first "/", leaving its "http:" or "https:" in it.
RECURSIVE NetlocOf(_)
NetlocOf(rest) ==
    IF rest = <<>> THEN <<>>
    ELSE IF Head(rest) = "/" THEN <<>>
    ELSE IF Head(rest) = "http://" THEN <<"http:">>
    ELSE IF Head(rest) = "https://" THEN <<"https:">>
    ELSE <<Head(rest)>> \o NetlocOf(Tail(rest))

HasScheme(site) == StartsWith(site, <<"http://">>) \/ StartsWith(site, <<"https://">>)

_normalize_site(site) ==
    LET s1 == Strip(site)
        s2 == IF HasScheme(s1) THEN NetlocOf(Tail(s1)) ELSE s1
    IN  IF StartsWith(s2, <<"api.">>) THEN Tail(s2) ELSE s2

_api_host(site) == <<"https://api.">> \o _normalize_site(site)

\* env(var, default): the optional os.getenv(var), "" treated as unset
env(var, default) ==
    LET v == environ[var]
    IN  IF IsNone(v) \/ Val(v) = "" THEN default ELSE v

----------------------------------------------------------------------------
(* cli.py: custom fields and update attributes *)

FieldNull == [kind |-> "null", items |-> <<>>]
FieldStr(v) == [kind |-> "str", items |-> <<v>>]
FieldList(v) == [kind |-> "list", items |-> <<v>>]

Contains(f, c) == \E i \in 1..Len(f) : f[i] = c
FirstIndex(f, c) == CHOOSE i \in 1..Len(f) : f[i] = c /\ \A j \in 1..(i - 1) : f[j] # c

\* f.split("=", 1)
SplitKey(f) == SubSeq(f, 1, FirstIndex(f, "=") - 1)
SplitValue(f) == SubSeq(f, FirstIndex(f, "=") + 1, Len(f))

FieldType(key) ==
    IF key \in {<<"severity">>, <<"state">>, <<"detection_method">>} THEN "dropdown"
    ELSE IF key \in {<<"teams">>, <<"services">>} THEN "autocomplete"
    ELSE IF key \in {<<"trigger">>, <<"root_cause_type">>, <<"impact_type">>}
         THEN "multiselect"
    ELSE "textbox"

\* faulty variant: autocomplete wraps every non-empty value, "[" or not
FieldValue_AlwaysWrap(field_type, value) ==
    IF field_type \in {"multiselect", "autocomplete"}
    THEN (IF value # <<>> THEN FieldList(value) ELSE FieldNull)
    ELSE (IF value # <<>> THEN FieldStr(value) ELSE FieldNull)

FieldValue(field_type, value) ==
    IF field_type = "multiselect"
    THEN (IF value # <<>> THEN FieldList(value) ELSE FieldNull)
    ELSE IF field_type = "autocomplete" /\ value # <<>>
    THEN (IF ~StartsWith(value, <<"[">>) THEN FieldList(value) ELSE FieldStr(value))
    ELSE (IF value # <<>> THEN FieldStr(value) ELSE FieldNull)

\* the loop of _parse_custom_fields from argument i on; raised = UsageError
RECURSIVE ParseFrom(_, _, _)
ParseFrom(field, i, fields) ==
    IF i > Len(field) THEN [raised |-> FALSE, fields |-> fields]
    ELSE IF ~Contains(field[i], "=") THEN [raised |-> TRUE, fields |-> fields]
    ELSE LET key == SplitKey(field[i])
             value == SplitValue(field[i])
             field_type == FieldType(key)
             rec == [type |-> field_type, value |-> FieldValue(field_type, value)]
         IN  ParseFrom(field, i + 1, DictSet(fields, key, rec))

_parse_custom_fields(field) == ParseFrom(field, 1, EmptyDict)

FlagNames == <<"title", "severity", "state", "customer_impacted", "customer_impact_scope">>

\* the five "if x is not None: attributes[x] = x" statements, in order
RECURSIVE SetFlags(_, _, _)
SetFlags(a, i, attrs) ==
    IF i > Len(FlagNames) THEN attrs
    ELSE LET k == FlagNames[i]
         IN  SetFlags(a, i + 1, IF IsNone(a[k]) THEN attrs ELSE DictSet(attrs, k, Val(a[k])))

_build_update_attributes(a) ==
    LET attrs == SetFlags(a, 1, EmptyDict)
    IN  IF a.field # <<>>
        THEN LET parsed == _parse_custom_fields(a.field)
             IN  IF parsed.raised THEN [raised |-> TRUE, attributes |-> attrs]
                 ELSE IF parsed.fields # EmptyDict
                 THEN [raised |-> FALSE,
                       attributes |-> DictSet(attrs, "fields", parsed.fields)]
                 ELSE [raised |-> FALSE, attributes |-> attrs]
        ELSE [raised |-> FALSE, attributes |-> attrs]

----------------------------------------------------------------------------
(* http.py: DatadogAPIError and the core request operation *)

NoExc == [type |-> "none", status_code |-> 0, message |-> <<>>, response_body |-> None]

DatadogAPIError(status_code, message, response_body) ==
    [type |-> "DatadogAPIError", status_code |-> status_code, message |-> message,
     response_body |-> response_body]

RuntimeError(message) ==
    [type |-> "RuntimeError", status_code |-> 0, message |-> message,
     response_body |-> None]

\* any exception that is neither of the two above (httpx.InvalidURL,
\* UnicodeDecodeError from a body that is not text, AttributeError, ...)
OtherError(message) ==
    [type |-> "Exception", status_code |-> 0, message |-> message,
     response_body |-> None]

\* DatadogAPIError.__str__
ErrorStr(e) ==
    IF e.type = "DatadogAPIError"
    THEN e.message \o <<" (status=", ToString(e.status_code), ")">>
    ELSE e.message

\* An element of an `errors` list: a JSON string s or a JSON number n.
ErrStr(s) == [t |-> "str", s |-> s, n |-> 0]
ErrNum(n) == [t |-> "num", s |-> "", n |-> n]
ErrElems == {ErrStr("a"), ErrStr("b"), ErrNum(5)}

\* str(err)
PyStr(e) == IF e.t = "str" THEN e.s ELSE ToString(e.n)

\* The value under "errors" of an error body: the key is absent, or it is
\* null, a list, a string (items are its characters), an object (items are
\* its keys) or a number.
ErrAbsent == [kind |-> "absent", items |-> <<>>, n |-> 0]
ErrorsVals ==
    {ErrAbsent, [kind |-> "null", items |-> <<>>, n |-> 0]}
    \cup {[kind |-> "list", items |-> s, n |-> 0] : s \in SeqsUpTo(ErrElems, MaxErrors)}
    \cup {[kind |-> "str", items |-> s, n |-> 0] : s \in {<<>>, <<ErrStr("a"), ErrStr("b")>>}}
    \cup {[kind |-> "obj", items |-> s, n |-> 0] : s \in {<<>>, <<ErrStr("code")>>}}
    \cup {[kind |-> "num", items |-> <<>>, n |-> k] : k \in {0, 7}}

\* The text of an error response: not JSON at all, JSON that is no object,
\* or a JSON object with the `errors` value given.
ErrTexts ==
    {[valid |-> FALSE, isObj |-> FALSE, errors |-> ErrAbsent],
     [valid |-> TRUE, isObj |-> FALSE, errors |-> ErrAbsent]}
    \cup {[valid |-> TRUE, isObj |-> TRUE, errors |-> e] : e \in ErrorsVals}

\* bool(payload.get("errors"))
ErrorsTruthy(e) ==
    \/ e.kind \in {"list", "str", "obj"} /\ e.items # <<>>
    \/ e.kind = "num" /\ e.n # 0

GenericMessage == <<"Datadog API error">>

\* faulty variant: only the first error makes the message
ErrorMessage_FirstOnly(text) ==
    IF ~text.valid THEN GenericMessage
    ELSE IF text.isObj /\ ErrorsTruthy(text.errors)
    THEN (IF text.errors.kind = "num" THEN GenericMessage
          ELSE <<PyStr(text.errors.items[1])>>)
    ELSE GenericMessage

\* lines 109-116: the message extracted from the body of a 4xx/5xx response
ErrorMessage(text) ==
    IF ~text.valid THEN GenericMessage                      \* json() raised
    ELSE IF text.isObj /\ ErrorsTruthy(text.errors)
    THEN (IF text.errors.kind = "num" THEN GenericMessage   \* TypeError, passed
          ELSE Join(<<"; ">>, [i \in 1..Len(text.errors.items) |->
                                   <<PyStr(text.errors.items[i])>>]))
    ELSE GenericMessage

\* resp.raise_for_status() raises HTTPStatusError
RaisesForStatus(status_code) == status_code >= 400 /\ status_code <= 599

Returned(v) == [kind |-> "value", value |-> v, exc |-> NoExc]
Raised(e) == [kind |-> "exc", value |-> None, exc |-> e]
NoRet == [kind |-> "none", value |-> None, exc |-> NoExc]

\* _request on the outcome o of self._client.request(...): an exception
\* raised by the transport, or a response with a status and a text
_request(o) ==
    IF o.raised = "RequestError"
    THEN Raised(RuntimeError(<<"Network error: ", "timeout">>))
    ELSE IF o.raised = "Exception" THEN Raised(OtherError(<<"unexpected">>))
    ELSE IF RaisesForStatus(o.status_code)
    THEN Raised(DatadogAPIError(o.status_code, ErrorMessage(o.text), Some(o.text)))
    ELSE IF ~o.text.valid
    THEN Raised(RuntimeError(<<"Invalid JSON response: ", "Expecting value">>))
    ELSE Returned(o.text.val)

----------------------------------------------------------------------------
(* http.py: the client as a scoped resource *)

NoClient == [state |-> "none", base_url |-> <<>>, api_key |-> "", app_key |-> "",
             acquired |-> 0]

\* DatadogClient.__init__ (c is the client variable before, for the count)
DatadogClient(c, site, api_key, app_key) ==
    [state |-> "open", base_url |-> _api_host(site), api_key |-> api_key,
     app_key |-> app_key, acquired |-> c.acquired + 1]

close(self) == [self EXCEPT !.state = "closed"]

\* faulty variant: leaving the with block does not close
exit_NoClose(self) == self

__exit__(self) == close(self)

\* faulty variant: only the API key is required
_get_client_ApiKeyOnly(c, site) ==
    LET api_key == env("DD_API_KEY", None)
        app_key == env("DD_APP_KEY", None)
    IN  IF IsNone(api_key)
        THEN [raised |-> TRUE, client |-> c]
        ELSE [raised |-> FALSE,
              client |-> DatadogClient(c, site, Val(api_key), Or(app_key, ""))]

\* _get_client: the client, or a UsageError
_get_client(c, site) ==
    LET api_key == env("DD_API_KEY", None)
        app_key == env("DD_APP_KEY", None)
    IN  IF IsNone(api_key) \/ IsNone(app_key)
        THEN [raised |-> TRUE, client |-> c]
        ELSE [raised |-> FALSE,
              client |-> DatadogClient(c, site, Val(api_key), Val(app_key))]

----------------------------------------------------------------------------
(* The requests of the per-endpoint methods *)

Req(method, path, params, json_body) ==
    [method |-> method, path |-> path, params |-> params, json_body |-> json_body]

get_incident(incident_id, include) ==
    Req("GET", <<"/api/v2/incidents/", incident_id>>,
        IF TruthyStr(include) THEN Some("include" :> Val(include)) ELSE None, None)

get_incident_type(incident_type_uuid) ==
    Req("GET", <<"/api/v2/incidents/config/types/", incident_type_uuid>>, None, None)

get_incident_integrations(incident_id) ==
    Req("GET", <<"/api/v2/incidents/", incident_id, "/relationships/integrations">>,
        None, None)

update_incident(incident_id, attrs) ==
    Req("PATCH", <<"/api/v2/incidents/", incident_id>>, None,
        Some([data |-> [type |-> "incidents", id |-> incident_id,
                        attributes |-> attrs]]))

search_logs(a, cur) ==
    LET filter0 == [query |-> a.query, from |-> a.time_from, to |-> a.time_to]
        filter == IF TruthyStr(a.storage_tier)
                  THEN DictSet(filter0, "storage_tier", Val(a.storage_tier))
                  ELSE filter0
        page0 == ("limit" :> a.limit)
        pg == IF TruthyStr(cur) THEN DictSet(page0, "cursor", Val(cur)) ELSE page0
    IN  Req("POST", <<"/api/v2/logs/events/search">>, None,
            Some([filter |-> filter, sort |-> "-timestamp", page |-> pg]))

validate ==
    Req("GET", <<"/api/v1/validate">>, None, None)

NoReq == Req("", <<>>, None, None)

----------------------------------------------------------------------------
(* What the network and the server can answer *)

NotJson == [valid |-> FALSE, isObj |-> FALSE, errors |-> ErrAbsent]

\* the transport fails, or the call raises something else
TransportOutcomes ==
    {[raised |-> r, status_code |-> 0, text |-> NotJson] : r \in {"RequestError", "Exception"}}

\* a 4xx/5xx response, with any error text
ErrorOutcomes ==
    {[raised |-> "none", status_code |-> c, text |-> t] : c \in {404, 500}, t \in ErrTexts}

\* a 2xx response whose body is not JSON
BadJsonOutcomes ==
    {[raised |-> "none", status_code |-> 200, text |-> NotJson]}

FailureOutcomes == TransportOutcomes \cup ErrorOutcomes \cup BadJsonOutcomes

Ok(v) == [raised |-> "none", status_code |-> 200, text |-> [valid |-> TRUE, val |-> v]]

\* An incident object: "data" is absent, an object, or something else; in an
\* object "attributes" likewise, with the optional incident_type_uuid in it,
\* and the optional id.  The object may have an "enrichment" key of its own,
\* an object or something else.
Incident(dk, ak, uuid, id, ek) ==
    [data |-> [kind |-> dk, id |-> id,
               attributes |-> [kind |-> ak, incident_type_uuid |-> uuid]],
     enrichment |-> ek]

OptStrs(S) == {None} \cup {Some(x) : x \in S}

IncidentData ==
    {<<"absent", "absent", None, None>>, <<"nonobj", "absent", None, None>>}
    \cup {<<"obj", ak, None, id>> : ak \in {"absent", "nonobj"}, id \in OptStrs({"", "i1"})}
    \cup {<<"obj", "obj", u, id>> : u \in OptStrs({"", "u1"}), id \in OptStrs({"", "i1"})}

Incidents ==
    {Incident(d[1], d[2], d[3], d[4], ek) :
        d \in IncidentData, ek \in {"absent", "obj", "nonobj"}}

\* A page of logs: "data" is absent, a list of entries, or something else;
\* "meta" is absent, null or an object; "page" in it is absent, an object or
\* something else (null); "after" in that is absent or a string.
LogEntries == {"l1", "l2"}

LogPage(dk, items, mk, pk, after) ==
    [data |-> [kind |-> dk, items |-> items],
     meta |-> [kind |-> mk, page |-> [kind |-> pk, after |-> after]]]

Metas ==
    {<<"absent", "absent", None>>, <<"null", "absent", None>>,
     <<"obj", "absent", None>>, <<"obj", "nonobj", None>>}
    \cup {<<"obj", "obj", a>> : a \in OptStrs({"", "c1", "c2"})}

\* the server has MaxLogs entries in all, so a page holds at most `left`
LogPages(left) ==
    {LogPage("absent", <<>>, m[1], m[2], m[3]) : m \in Metas}
    \cup {LogPage("nonlist", <<>>, m[1], m[2], m[3]) : m \in Metas}
    \cup {LogPage("list", it, m[1], m[2], m[3]) : it \in SeqsUpTo(LogEntries, left), m \in Metas}

\* the body of /api/v1/validate: {"valid": true}, maybe with a "status" of its own
ValidateBodies == {("valid" :> 1), ("valid" :> 1) @@ ("status" :> 403)}

OkOutcomes(site, left) ==
    IF site = "get_incident" THEN {Ok(v) : v \in Incidents}
    ELSE IF site = "search_logs" THEN {Ok(v) : v \in LogPages(left)}
    ELSE IF site = "validate" THEN {Ok(v) : v \in ValidateBodies}
    ELSE {Ok(v) : v \in {"json-a", "json-b"}}

----------------------------------------------------------------------------
(* Command lines and environments *)

\* --site values: every string of at most MaxSiteParts chunks
SiteChunks == {" ", "http://", "https://", "api.", "us3.datadoghq.com", "/"}
Sites == SeqsUpTo(SiteChunks, MaxSiteParts)

\* the default of _default_site(), and one with scheme and api. prefix
DefaultSite == <<"us3.datadoghq.com">>
SiteSamples == {DefaultSite, <<"https://", "api.", "us3.datadoghq.com">>}

\* --field arguments: key=value over the keys of the table and two others,
\* and two arguments without "="
FieldKeys == {<<"severity">>, <<"state">>, <<"detection_method">>, <<"teams">>,
              <<"services">>, <<"trigger">>, <<"root_cause_type">>, <<"impact_type">>,
              <<"summary">>, <<>>}
FieldVals == {<<>>, <<"v">>, <<"[", "v", "]">>, <<"v", "=", "w">>}
FieldArgs == {k \o <<"=">> \o v : k \in FieldKeys, v \in FieldVals}
             \cup {<<"malformed">>, <<>>}
FieldTuples == SeqsUpTo(FieldArgs, MaxFields)
FieldSamples == {<<>>, << <<"malformed">> >>, << <<"severity", "=", "SEV-1">> >>,
                 << <<"teams", "=", "infra">>, <<"trigger", "=">> >>}

DefaultArgs ==
    [site |-> DefaultSite, incident_id |-> "123", include_param |-> None,
     enrich |-> FALSE, title |-> None, severity |-> None, state |-> None,
     customer_impacted |-> None, customer_impact_scope |-> None, field |-> <<>>,
     query |-> "env:prod", time_from |-> "now-15m", time_to |-> "now",
     limit |-> 100, storage_tier |-> None, all_pages |-> FALSE]

GetIncidentArgs ==
    {[DefaultArgs EXCEPT !.site = s, !.enrich = e, !.include_param = i] :
        s \in SiteSamples, e \in BOOLEAN, i \in OptStrs({"fields"})}

UpdateIncidentArgs ==
    {[DefaultArgs EXCEPT !.site = s, !.title = t, !.severity = sv, !.state = st,
                         !.customer_impacted = ci, !.customer_impact_scope = cs,
                         !.field = f] :
        s \in SiteSamples, t \in OptStrs({"", "t"}), sv \in OptStrs({"SEV-1"}),
        st \in OptStrs({"active"}), ci \in {None, Some(TRUE), Some(FALSE)},
        cs \in OptStrs({"all"}), f \in FieldSamples}

ValidateArgs == {[DefaultArgs EXCEPT !.site = s] : s \in SiteSamples}

SearchLogsArgs ==
    {[DefaultArgs EXCEPT !.site = s, !.all_pages = ap,
                         !.storage_tier = IF ap THEN None ELSE Some("flex")] :
        s \in SiteSamples, ap \in BOOLEAN}

Environs == [{"DD_API_KEY", "DD_APP_KEY"} -> OptStrs({"", "key"})]

----------------------------------------------------------------------------
(* Outcomes of a command *)

Running == [status |-> "running", stdout |-> None, stderr |-> None]

\* click.echo(json.dumps(v)) and a normal return: exit status 0
Printed(v) == [status |-> "ok", stdout |-> Some(v), stderr |-> None]

\* click.UsageError: exit status 2, nothing printed
UsageError(message) == [status |-> "UsageError", stdout |-> None, stderr |-> Some(message)]

\* _handle_api_error: a ClickException carrying {error, status, body}
_handle_api_error(e) ==
    [status |-> "ClickException", stdout |-> None,
     stderr |-> Some([error |-> ErrorStr(e), status |-> e.status_code,
                      body |-> e.response_body])]

\* the except clauses of a command around its with block: DatadogAPIError,
\* RuntimeError, and anything else leaves the command as a traceback
CommandFailure(e) ==
    IF e.type = "DatadogAPIError" THEN _handle_api_error(e)
    ELSE IF e.type = "RuntimeError"
    THEN [status |-> "ClickException", stdout |-> None, stderr |-> Some(ErrorStr(e))]
    ELSE [status |-> "crash", stdout |-> None, stderr |-> Some(ErrorStr(e))]

\* faulty variant: the response is printed as it came
ValidateOutput_NoStatus(d) == Printed(d)

\* line 254: {"status": 200, **data}, the keys of data winning
ValidateOutput(d) == Printed(d @@ ("status" :> ValidateStatus))

----------------------------------------------------------------------------
(* cli.py: _enrich_incident, from one request to the next *)

Step(next, d) == [next |-> next, data |-> d, exc |-> NoExc]
Propagate(d, e) == [next |-> "raise", data |-> d, exc |-> e]

AttributeError == OtherError(<<"object has no attribute 'get'">>)
TypeError == OtherError(<<"object does not support item assignment">>)

\* data.setdefault("enrichment", {})[k] = v: the item assignment raises
\* TypeError on an "enrichment" value that is no dict
SetEnrichment(d, k, v) ==
    IF d.enrichment.kind = "nonobj" THEN [raised |-> TRUE, data |-> d]
    ELSE [raised |-> FALSE,
          data |-> [d EXCEPT !.enrichment =
                        [kind |-> "obj", dict |-> DictSet(@.dict, k, v)]]]

\* line 107, the handler of "except Exception as e"; what it raises leaves
\* _enrich_incident
RecordError(d, e) ==
    LET s == SetEnrichment(d, "errors", <<"Enrichment failed: ">> \o ErrorStr(e))
    IN  IF s.raised THEN Propagate(d, TypeError) ELSE Step("end", s.data)

\* lines 98-104 up to the integrations request
EnrichIntegrations(d) ==
    IF d.body.data.kind = "nonobj" THEN RecordError(d, AttributeError)
    ELSE LET incident_id == IF d.body.data.kind = "obj" /\ ~IsNone(d.body.data.id)
                            THEN Val(d.body.data.id) ELSE ""
         IN  IF incident_id # ""
             THEN Step("get_incident_integrations", d)
             ELSE Step("end", d)

\* lines 86-93 up to the incident type request
EnrichStart(d) ==
    LET dat == d.body.data
    IN  IF dat.kind = "nonobj" \/ (dat.kind = "obj" /\ dat.attributes.kind = "nonobj")
        THEN RecordError(d, AttributeError)
        ELSE LET incident_type_uuid ==
                     IF dat.kind = "obj" /\ dat.attributes.kind = "obj"
                     THEN dat.attributes.incident_type_uuid ELSE None
             IN  IF TruthyStr(incident_type_uuid)
                 THEN Step("get_incident_type", d)
                 ELSE EnrichIntegrations(d)

\* lines 93-96 and 106-107 after the incident type request
EnrichAfterType(d, r) ==
    IF r.kind = "value"
    THEN LET s == SetEnrichment(d, "incident_type", r.value)
         IN  IF s.raised THEN RecordError(d, TypeError) ELSE EnrichIntegrations(s.data)
    ELSE IF r.exc.type = "DatadogAPIError" THEN EnrichIntegrations(d)
    ELSE RecordError(d, r.exc)

\* lines 101-107 after the integrations request
EnrichAfterIntegrations(d, r) ==
    IF r.kind = "value"
    THEN LET s == SetEnrichment(d, "integrations", r.value)
         IN  IF s.raised THEN RecordError(d, TypeError) ELSE Step("end", s.data)
    ELSE IF r.exc.type = "DatadogAPIError" THEN Step("end", d)
    ELSE RecordError(d, r.exc)

\* data as get_incident returned it: the incident, and its "enrichment" key
Incoming(v) == [body |-> v, enrichment |-> [kind |-> v.enrichment, dict |-> EmptyDict]]

----------------------------------------------------------------------------
(* cli.py: one iteration of the search-logs loop *)

\* faulty variant: the page goes in front of what was accumulated
Extend_Prepend(logs, v) ==
    IF v.data.kind = "list" THEN v.data.items \o logs
    ELSE logs

\* logs = data.get("data", []); if isinstance(logs, list): all_logs.extend(logs)
Extend(logs, v) ==
    IF v.data.kind = "list" THEN logs \o v.data.items
    ELSE logs

\* (data.get("meta") or {}).get("page", {}): raises on a page that is no dict
CursorRaises(v) == v.meta.kind = "obj" /\ v.meta.page.kind = "nonobj"

\* (data.get("meta") or {}).get("page", {}).get("after")
NextCursor(v) ==
    IF v.meta.kind = "obj" /\ v.meta.page.kind = "obj" THEN v.meta.page.after ELSE None

\* faulty variant: one iteration too many with --all-pages
max_pages_OffByOne(a) == IF a.all_pages THEN MaxPagesAll + 1 ELSE MaxPagesOne

max_pages(a) == IF a.all_pages THEN MaxPagesAll ELSE MaxPagesOne

----------------------------------------------------------------------------
(* The state machine *)

NoData == Incoming(Incident("absent", "absent", None, None, "absent"))
NoResponse == [raised |-> "none", status_code |-> 0, text |-> NotJson]
NoWire == [sent |-> 0, received |-> 0, request |-> NoReq, response |-> NoResponse]
NoServed == [logs |-> <<>>, after |-> None, first |-> None,
             incident_type |-> "none", integrations |-> "none"]

InitRest ==
    /\ pc = "start"
    /\ callsite = "none"
    /\ client = NoClient
    /\ wire = NoWire
    /\ ret = NoRet
    /\ data = NoData
    /\ attributes = EmptyDict
    /\ cursor = None
    /\ all_logs = <<>>
    /\ page = 0
    /\ served = NoServed
    /\ out = Running

Init ==
    /\ environ \in Environs
    /\ \/ cmd = "get-incident" /\ args \in GetIncidentArgs
       \/ cmd = "update-incident" /\ args \in UpdateIncidentArgs
       \/ cmd = "validate" /\ args \in ValidateArgs
       \/ cmd = "search-logs" /\ args \in SearchLogsArgs
    /\ InitRest

\* leave the with block and end the command with outcome o
Finish(o) ==
    /\ client' = __exit__(client)
    /\ pc' = "done"
    /\ out' = o

\* end the command before any client exists
Abort(o) ==
    /\ pc' = "done"
    /\ out' = o
    /\ UNCHANGED <<client, callsite>>

\* enter the with block with client c, about to call `site`
Enter(c, site) ==
    /\ client' = c
    /\ pc' = "call"
    /\ callsite' = site
    /\ UNCHANGED out

GetIncidentStart ==
    /\ pc = "start" /\ cmd = "get-incident"
    /\ LET g == _get_client(client, args.site)
       IN  IF g.raised
           THEN Abort(UsageError("DD_API_KEY and DD_APP_KEY must be set"))
           ELSE Enter(g.client, "get_incident")
    /\ UNCHANGED <<cmd, args, environ, wire, ret, data, attributes, cursor,
                   all_logs, page, served>>

UpdateIncidentStart ==
    /\ pc = "start" /\ cmd = "update-incident"
    /\ LET b == _build_update_attributes(args)
           g == _get_client(client, args.site)
       IN  IF b.raised
           THEN Abort(UsageError("Invalid field format")) /\ UNCHANGED attributes
           ELSE IF b.attributes = EmptyDict
           THEN Abort(UsageError("No updates specified")) /\ attributes' = b.attributes
           ELSE IF g.raised
           THEN /\ Abort(UsageError("DD_API_KEY and DD_APP_KEY must be set"))
                /\ attributes' = b.attributes
           ELSE Enter(g.client, "update_incident") /\ attributes' = b.attributes
    /\ UNCHANGED <<cmd, args, environ, wire, ret, data, cursor, all_logs, page, served>>

ValidateStart ==
    /\ pc = "start" /\ cmd = "validate"
    /\ LET api_key == env("DD_API_KEY", None)
           app_key == Or(env("DD_APP_KEY", None), "unused")
       IN  IF IsNone(api_key)
           THEN Abort(UsageError("DD_API_KEY must be set"))
           ELSE Enter(DatadogClient(client, args.site, Val(api_key), app_key),
                      "validate")
    /\ UNCHANGED <<cmd, args, environ, wire, ret, data, attributes, cursor,
                   all_logs, page, served>>

SearchLogsStart ==
    /\ pc = "start" /\ cmd = "search-logs"
    /\ LET g == _get_client(client, args.site)
       IN  IF g.raised
           THEN Abort(UsageError("DD_API_KEY and DD_APP_KEY must be set")) /\ UNCHANGED page
           ELSE Enter(g.client, "search_logs") /\ page' = 1
    /\ UNCHANGED <<cmd, args, environ, wire, ret, data, attributes, cursor,
                   all_logs, served>>

\* the request the command makes at its call site
RequestAt(site) ==
    IF site = "get_incident" THEN get_incident(args.incident_id, args.include_param)
    ELSE IF site = "get_incident_type"
    THEN get_incident_type(Val(data.body.data.attributes.incident_type_uuid))
    ELSE IF site = "get_incident_integrations"
    THEN get_incident_integrations(Val(data.body.data.id))
    ELSE IF site = "update_incident" THEN update_incident(args.incident_id, attributes)
    ELSE IF site = "validate" THEN validate
    ELSE search_logs(args, cursor)

\* self._client.request(...): the request leaves
Call ==
    /\ pc = "call"
    /\ wire' = [wire EXCEPT !.sent = @ + 1, !.request = RequestAt(callsite)]
    /\ pc' = "wait"
    /\ UNCHANGED <<cmd, args, environ, callsite, client, ret, data, attributes,
                   cursor, all_logs, page, served, out>>

\* how a call ended: "value", or the type of the exception
ResultKind(r) == IF r.kind = "value" THEN "value" ELSE r.exc.type

\* what the server has handed out once outcome o is in
Serve(o) ==
    LET r == _request(o)
        isPage == callsite = "search_logs" /\ r.kind = "value"
    IN  [logs |-> IF isPage /\ r.value.data.kind = "list"
                  THEN served.logs \o r.value.data.items ELSE served.logs,
         after |-> IF isPage /\ r.value.meta.kind = "obj" /\ r.value.meta.page.kind = "obj"
                   THEN r.value.meta.page.after ELSE None,
         first |-> IF callsite = "get_incident" /\ r.kind = "value" THEN Some(r.value)
                   ELSE served.first,
         incident_type |-> IF callsite = "get_incident_type" THEN ResultKind(r)
                           ELSE served.incident_type,
         integrations |-> IF callsite = "get_incident_integrations" THEN ResultKind(r)
                          ELSE served.integrations]

Deliver(o) ==
    /\ ret' = _request(o)
    /\ wire' = [wire EXCEPT !.received = @ + 1, !.response = o]
    /\ served' = Serve(o)
    /\ pc' = "ret"
    /\ UNCHANGED <<cmd, args, environ, callsite, client, data, attributes, cursor,
                   all_logs, page, out>>

\* the call fails, or the server answers 4xx/5xx or 2xx without JSON
RespondFailure ==
    /\ pc = "wait"
    /\ \E o \in FailureOutcomes : Deliver(o)

\* the server answers 2xx with JSON
RespondOk ==
    /\ pc = "wait"
    /\ \E o \in OkOutcomes(callsite, MaxLogs - Len(served.logs)) : Deliver(o)

\* go on inside _enrich_incident, or leave it, the with block and the
\* command: by its end, or by an exception it let out
Proceed(step) ==
    /\ data' = step.data
    /\ IF step.next = "end"
       THEN Finish(Printed(step.data)) /\ UNCHANGED callsite
       ELSE IF step.next = "raise"
       THEN Finish(CommandFailure(step.exc)) /\ UNCHANGED callsite
       ELSE pc' = "call" /\ callsite' = step.next /\ UNCHANGED <<client, out>>

GetIncidentReturn ==
    /\ pc = "ret" /\ callsite = "get_incident"
    /\ IF ret.kind = "exc"
       THEN Finish(CommandFailure(ret.exc)) /\ UNCHANGED <<data, callsite>>
       ELSE IF args.enrich THEN Proceed(EnrichStart(Incoming(ret.value)))
            ELSE Proceed(Step("end", Incoming(ret.value)))
    /\ UNCHANGED <<cmd, args, environ, wire, ret, attributes, cursor, all_logs,
                   page, served>>

IncidentTypeReturn ==
    /\ pc = "ret" /\ callsite = "get_incident_type"
    /\ Proceed(EnrichAfterType(data, ret))
    /\ UNCHANGED <<cmd, args, environ, wire, ret, attributes, cursor, all_logs,
                   page, served>>

IntegrationsReturn ==
    /\ pc = "ret" /\ callsite = "get_incident_integrations"
    /\ Proceed(EnrichAfterIntegrations(data, ret))
    /\ UNCHANGED <<cmd, args, environ, wire, ret, attributes, cursor, all_logs,
                   page, served>>

UpdateIncidentReturn ==
    /\ pc = "ret" /\ callsite = "update_incident"
    /\ IF ret.kind = "exc" THEN Finish(CommandFailure(ret.exc))
       ELSE Finish(Printed(ret.value))
    /\ UNCHANGED <<cmd, args, environ, callsite, wire, ret, data, attributes,
                   cursor, all_logs, page, served>>

ValidateReturn ==
    /\ pc = "ret" /\ callsite = "validate"
    /\ IF ret.kind = "exc" THEN Finish(CommandFailure(ret.exc))
       ELSE Finish(ValidateOutput(ret.value))
    /\ UNCHANGED <<cmd, args, environ, callsite, wire, ret, data, attributes,
                   cursor, all_logs, page, served>>

SearchLogsReturn ==
    /\ pc = "ret" /\ callsite = "search_logs"
    /\ IF ret.kind = "exc"
       THEN Finish(CommandFailure(ret.exc)) /\ UNCHANGED <<cursor, all_logs, page>>
       ELSE LET logs == Extend(all_logs, ret.value)
                cur == NextCursor(ret.value)
            IN  /\ all_logs' = logs
                /\ IF CursorRaises(ret.value)
                   THEN Finish(CommandFailure(AttributeError)) /\ UNCHANGED <<cursor, page>>
                   ELSE /\ cursor' = cur
                        /\ IF TruthyStr(cur) /\ page < max_pages(args)
                           THEN pc' = "call" /\ page' = page + 1 /\ UNCHANGED <<client, out>>
                           ELSE /\ Finish(Printed([data |-> logs, count |-> Len(logs)]))
                                /\ UNCHANGED page
    /\ UNCHANGED <<cmd, args, environ, callsite, wire, ret, data, attributes, served>>

Next ==
    \/ GetIncidentStart
    \/ UpdateIncidentStart
    \/ ValidateStart
    \/ SearchLogsStart
    \/ Call
    \/ RespondFailure
    \/ RespondOk
    \/ GetIncidentReturn
    \/ IncidentTypeReturn
    \/ IntegrationsReturn
    \/ UpdateIncidentReturn
    \/ ValidateReturn
    \/ SearchLogsReturn

Spec == Init /\ [][Next]_vars

----------------------------------------------------------------------------
(* Site normalisation on every site: the client built by validate *)

BothKeys == [k \in {"DD_API_KEY", "DD_APP_KEY"} |-> Some("key")]

InitSite ==
    /\ environ = BothKeys
    /\ cmd = "validate"
    /\ args \in {[DefaultArgs EXCEPT !.site = s] : s \in Sites}
    /\ InitRest

NextSite == ValidateStart

SpecSite == InitSite /\ [][NextSite]_vars

(* Custom fields on every --field tuple: the attributes update-incident builds *)

InitFields ==
    /\ environ = BothKeys
    /\ cmd = "update-incident"
    /\ args \in {[DefaultArgs EXCEPT !.field = f] : f \in FieldTuples}
    /\ InitRest

NextFields == UpdateIncidentStart

SpecFields == InitFields /\ [][NextFields]_vars

----------------------------------------------------------------------------
(* Properties *)

Done == pc = "done"
HasCredential(var) == TruthyStr(environ[var])
ResponseIsError ==
    wire.response.raised = "none" /\ wire.response.status_code \in 400..599

\* the cursor a search request carries in its body, if any
RequestCursor(req) ==
    LET pg == Val(req.json_body).page
    IN  IF HasKey(pg, "cursor") THEN Some(pg["cursor"]) ELSE None

(* C1: search-logs with --all-pages issues at most 50 search requests and    *)
(* none after a response that carries no meta.page.after cursor; without     *)
(* --all-pages a command that reached the loop issues exactly one request,   *)
(* whatever cursor comes back.                                               *)
C1_BoundedPagination ==
    cmd = "search-logs" =>
        /\ wire.sent <= MaxPagesAll
        /\ (wire.sent > wire.received /\ wire.received >= 1) => ~IsNone(served.after)
        /\ ~args.all_pages => wire.sent <= MaxPagesOne
        /\ (~args.all_pages /\ Done /\ client.acquired > 0) => wire.sent = 1

\* the page limit is reached: fifty requests, the last one answered with a cursor
C1_Witness ==
    /\ cmd = "search-logs" /\ args.all_pages /\ Done
    /\ wire.sent = MaxPagesAll /\ ~IsNone(served.after)

(* C2: in every command and on every exit path the client is acquired at     *)
(* most once, is closed when the command has terminated if it was acquired,  *)
(* and a request is only ever in flight on an open client.                   *)
C2_ClientScoped ==
    /\ client.acquired <= 1
    /\ (Done /\ client.acquired > 0) => client.state = "closed"
    /\ (pc = "wait") => client.state = "open"
    /\ (client.state = "closed") => Done
    /\ (wire.sent > 0) => client.acquired = 1

\* search-logs in its second iteration or later, left by an exception that
\* no except clause names
C2_Witness ==
    /\ cmd = "search-logs" /\ Done /\ out.status = "crash"
    /\ wire.sent > 1 /\ client.state = "closed"

NoUpdateFlags == \A i \in 1..Len(FlagNames) : IsNone(args[FlagNames[i]])
SomeFieldMalformed == \E i \in 1..Len(args.field) : ~Contains(args.field[i], "=")
UsageFailure == Done /\ out.status = "UsageError" /\ wire.sent = 0 /\ client.acquired = 0

(* C3: every usage error comes before any network call: update-incident      *)
(* without flags and fields, update-incident with a --field without "=",     *)
(* and any command without the credentials it needs, end in a usage error    *)
(* with no request issued.                                                   *)
C3_UsageBeforeNetwork ==
    /\ (out.status = "UsageError") => UsageFailure
    /\ pc # "start" =>
        /\ (cmd = "update-incident" /\ NoUpdateFlags /\ args.field = <<>>) => UsageFailure
        /\ (cmd = "update-incident" /\ SomeFieldMalformed) => UsageFailure
        /\ (cmd \in {"get-incident", "update-incident", "search-logs"}
               /\ ~(HasCredential("DD_API_KEY") /\ HasCredential("DD_APP_KEY")))
           => UsageFailure
        /\ (cmd = "validate" /\ ~HasCredential("DD_API_KEY")) => UsageFailure

\* update-incident with something to update but an empty application key
C3_Witness ==
    /\ cmd = "update-incident" /\ UsageFailure
    /\ attributes # EmptyDict
    /\ HasCredential("DD_API_KEY") /\ environ["DD_APP_KEY"] = Some("")

EnrichRun == cmd = "get-incident" /\ args.enrich /\ ~IsNone(served.first)
PrintedIncident == out.status = "ok" /\ Val(out.stdout).body = Val(served.first)
PrintedEnrichment ==
    IF Val(out.stdout).enrichment.kind = "obj" THEN Val(out.stdout).enrichment.dict
    ELSE EmptyDict

(* C4: get-incident --enrich, once the primary fetch has succeeded, prints    *)
(* the primary incident and exits successfully whatever the two auxiliary    *)
(* fetches do; a type lookup that fails with an API error leaves no          *)
(* enrichment.incident_type, an integrations lookup that does so leaves no   *)
(* enrichment.integrations.                                                  *)
C4_EnrichBestEffort ==
    (EnrichRun /\ Done) =>
        /\ PrintedIncident
        /\ (served.incident_type = "DatadogAPIError")
           => ~HasKey(PrintedEnrichment, "incident_type")
        /\ (served.integrations = "DatadogAPIError")
           => ~HasKey(PrintedEnrichment, "integrations")


\* the message the claim gives an error body
ClaimedMessage(text) ==
    IF text.valid /\ text.isObj /\ text.errors.kind = "list"
    THEN Join(<<"; ">>, [i \in 1..Len(text.errors.items) |->
                            <<PyStr(text.errors.items[i])>>])
    ELSE GenericMessage

\* the message with "containing an errors list" read as the code reads it:
\* the value is truthy and can be iterated
AmendedMessage(text) ==
    IF /\ text.valid /\ text.isObj
       /\ text.errors.kind \in {"list", "str", "obj"} /\ Len(text.errors.items) > 0
    THEN Join(<<"; ">>, [i \in 1..Len(text.errors.items) |->
                            <<PyStr(text.errors.items[i])>>])
    ELSE GenericMessage

ApiErrorCarries(message) ==
    /\ ret.kind = "exc" /\ ret.exc.type = "DatadogAPIError"
    /\ ret.exc.status_code = wire.response.status_code
    /\ ret.exc.response_body = Some(wire.response.text)
    /\ ret.exc.message = message

(* C5 as claimed: a 4xx/5xx response becomes an API error with the status,   *)
(* the body text verbatim, and as message the elements of `errors` joined    *)
(* with "; " whenever the body is a JSON object containing an `errors` list, *)
(* the generic message otherwise.                                            *)
C5_AsClaimed ==
    (pc = "ret" /\ ResponseIsError) => ApiErrorCarries(ClaimedMessage(wire.response.text))

(* C5 amended: the same, the message being the joined elements whenever      *)
(* `errors` is a non-empty list (or a non-empty string or object, iterated   *)
(* as characters or keys), and the generic message otherwise: body not       *)
(* JSON, not an object, without `errors`, or `errors` null, empty or a       *)
(* number.                                                                   *)
C5_ApiError ==
    (pc = "ret" /\ ResponseIsError) => ApiErrorCarries(AmendedMessage(wire.response.text))

\* the body {"errors": ["a", "b"]} on a 404
C5_Witness ==
    /\ pc = "ret" /\ ResponseIsError /\ wire.response.status_code = 404
    /\ wire.response.text.errors.kind = "list"
    /\ ret.exc.message = <<"a", "; ", "b">>
    /\ ret.exc.response_body = Some(wire.response.text)

\* the site the open client was built for, base_url without "https://api."
ClientSite == Tail(client.base_url)

(* C6: site normalisation is idempotent, and it strips a scheme and a        *)
(* leading "api.": normalising a normalised site changes nothing, and        *)
(* "https://api.us3.datadoghq.com" and "us3.datadoghq.com" both normalise    *)
(* to "us3.datadoghq.com".                                                   *)
C6_NormalizeIdempotent ==
    /\ _normalize_site(<<"https://", "api.", "us3.datadoghq.com">>) = <<"us3.datadoghq.com">>
    /\ _normalize_site(<<"us3.datadoghq.com">>) = <<"us3.datadoghq.com">>
    /\ (client.state = "open") =>
        /\ ClientSite = _normalize_site(args.site)
        /\ _normalize_site(ClientSite) = ClientSite

\* key and value of a key=value argument, split at its first "="
ClaimedSplit(f) ==
    CHOOSE kv \in {<<SubSeq(f, 1, i - 1), SubSeq(f, i + 1, Len(f))>> : i \in 1..Len(f)} :
        /\ f = kv[1] \o <<"=">> \o kv[2]
        /\ ~Contains(kv[1], "=")

ClaimedType(key) ==
    CASE key \in {<<"severity">>, <<"state">>, <<"detection_method">>} -> "dropdown"
      [] key \in {<<"teams">>, <<"services">>} -> "autocomplete"
      [] key \in {<<"trigger">>, <<"root_cause_type">>, <<"impact_type">>} -> "multiselect"
      [] OTHER -> "textbox"

ClaimedValue(type, value) ==
    CASE type = "multiselect" /\ value # <<>> -> FieldList(value)
      [] type = "multiselect" /\ value = <<>> -> FieldNull
      [] type = "autocomplete" /\ value = <<>> -> FieldNull
      [] type = "autocomplete" /\ value # <<>> /\ value[1] = "[" -> FieldStr(value)
      [] type = "autocomplete" /\ value # <<>> /\ value[1] # "[" -> FieldList(value)
      [] type \in {"dropdown", "textbox"} /\ value # <<>> -> FieldStr(value)
      [] type \in {"dropdown", "textbox"} /\ value = <<>> -> FieldNull

ClaimedRecord(f) ==
    LET kv == ClaimedSplit(f)
    IN  [type |-> ClaimedType(kv[1]), value |-> ClaimedValue(ClaimedType(kv[1]), kv[2])]

LastOfKey(i) ==
    \A j \in (i + 1)..Len(args.field) :
        ClaimedSplit(args.field[j])[1] # ClaimedSplit(args.field[i])[1]

(* C7: every --field argument key=value, split at its first "=", is encoded  *)
(* as {type, value}: type by the key table, value a one-element list, the    *)
(* raw string or null as the type and the value say.  The record is what     *)
(* the argument alone parses to, and what attributes.fields holds under the  *)
(* key unless a later argument names the key again.                          *)
C7_FieldEncoding ==
    (cmd = "update-incident" /\ pc # "start" /\ ~SomeFieldMalformed) =>
        \A i \in 1..Len(args.field) :
            LET f == args.field[i]
                key == ClaimedSplit(f)[1]
            IN  /\ _parse_custom_fields(<<f>>).fields = (key :> ClaimedRecord(f))
                /\ HasKey(attributes, "fields") /\ HasKey(attributes["fields"], key)
                /\ LastOfKey(i) => attributes["fields"][key] = ClaimedRecord(f)

\* teams=[v] stays a string, trigger= becomes null
C7_Witness ==
    /\ cmd = "update-incident" /\ pc = "call"
    /\ args.field = << <<"teams", "=", "[", "v", "]">>, <<"trigger", "=">> >>
    /\ attributes["fields"][<<"teams">>].value = FieldStr(<<"[", "v", "]">>)
    /\ attributes["fields"][<<"trigger">>].value = FieldNull

OnlyApiKey == cmd = "validate" /\ HasCredential("DD_API_KEY") /\ ~HasCredential("DD_APP_KEY")

\* {status: 200, ...response}
MergedWithStatus(printed, response) ==
    /\ DOMAIN printed = DOMAIN response \cup {"status"}
    /\ \A k \in DOMAIN response : printed[k] = response[k]
    /\ ~HasKey(response, "status") => printed["status"] = ValidateStatus

(* C8: validate with DD_API_KEY set and DD_APP_KEY unset or empty raises no   *)
(* usage error, issues exactly one GET /api/v1/validate with the placeholder *)
(* application key, and on a successful response exits zero printing status  *)
(* 200 merged with the response.                                             *)
C8_ValidateApiKeyOnly ==
    OnlyApiKey =>
        /\ out.status # "UsageError"
        /\ wire.sent <= 1
        /\ pc # "start" => client.app_key = "unused" /\ client.api_key = "key"
        /\ pc \in {"wait", "ret", "done"} =>
            /\ wire.sent = 1
            /\ wire.request = Req("GET", <<"/api/v1/validate">>, None, None)
        /\ (Done /\ ret.kind = "value") =>
            /\ out.status = "ok"
            /\ MergedWithStatus(Val(out.stdout), wire.response.text.val)

\* no application key at all, and {"valid": true} printed with status 200
C8_Witness ==
    /\ OnlyApiKey /\ IsNone(environ["DD_APP_KEY"]) /\ Done
    /\ out.status = "ok" /\ Val(out.stdout) = ("valid" :> 1) @@ ("status" :> 200)

NonApiFailure(kind) == kind \in {"RuntimeError", "Exception"}
MalformedIncident(v) ==
    \/ v.data.kind = "nonobj"
    \/ v.data.kind = "obj" /\ v.data.attributes.kind = "nonobj"

(* C9: get-incident --enrich: a failure during enrichment that is no API     *)
(* error (a transport failure or an invalid-JSON answer of either auxiliary  *)
(* fetch, a primary response whose data or attributes is no object) is       *)
(* recorded as a string under enrichment.errors, and the command exits       *)
(* successfully.                                                             *)
C9_EnrichmentErrorsRecorded ==
    (/\ EnrichRun /\ Done
     /\ \/ NonApiFailure(served.incident_type)
        \/ NonApiFailure(served.integrations)
        \/ MalformedIncident(Val(served.first)))
    => /\ PrintedIncident
       /\ HasKey(PrintedEnrichment, "errors")
       /\ StartsWith(PrintedEnrichment["errors"], <<"Enrichment failed: ">>)
       /\ Len(PrintedEnrichment["errors"]) > 1


(* C10: the search-logs page fetches are sequential and chained by cursor:   *)
(* the first request carries no cursor, request N+1 leaves only after        *)
(* response N is in and carries exactly its meta.page.after, and on success  *)
(* the printed data is the entries of the fetched pages, concatenated in     *)
(* fetch order, with count its length.                                       *)
C10_CursorChain ==
    cmd = "search-logs" =>
        /\ wire.sent \in {wire.received, wire.received + 1}
        /\ (pc = "wait") => wire.sent = wire.received + 1
        /\ (pc = "wait" /\ wire.sent = 1) => IsNone(RequestCursor(wire.request))
        /\ (pc = "wait" /\ wire.sent > 1) =>
            /\ ~IsNone(served.after)
            /\ RequestCursor(wire.request) = served.after
        /\ (Done /\ out.status = "ok") =>
            /\ Val(out.stdout).data = served.logs
            /\ Val(out.stdout).count = Len(served.logs)

\* two pages fetched, one entry each, printed in the order fetched
C10_Witness ==
    /\ cmd = "search-logs" /\ Done /\ out.status = "ok"
    /\ wire.sent = 2 /\ wire.received = 2
    /\ RequestCursor(wire.request) = Some("c2")
    /\ Val(out.stdout) = [data |-> <<"l2", "l1">>, count |-> 2]

====
